---- MODULE Spec2Model ----
(***************************************************************************)
(* Model of the AVR busy-wait delay crate (dylanmckay/delay).              *)
(*                                                                         *)
(* A delay request (delay_cycles!, delay_us!, delay_ms!) is resolved at    *)
(* build time by const evaluation into ITERATIONS, then the naked          *)
(* function delay_atom_iterations spins, calling the atom delay_21_cycles. *)
(*                                                                         *)
(* u32 values are kept as two 16-bit limbs <<hi, lo>> (value = hi * 2^16   *)
(* + lo), because a u32 does not fit TLC's 32-bit signed integers; an     *)
(* exact (unwrapped) intermediate result may have hi >= 2^16.              *)
(* delay_atom_iterations is stepped block by block on the AVR registers    *)
(* r0, r20..r23 and the status flags Z and C the instructions read/write.  *)
(***************************************************************************)
EXTENDS Integers, Naturals, Sequences, FiniteSets, TLC

\* ------------------------------------------------------------------ bounds
MaxCycles == 1000
MidBase == 17700
MidSpan == 200
TopSpan == 60
MaxUs == 70
UsSpan == 2
MaxMs == 3
MsSpan == 2
MaxIterations == 260

\* ------------------------------------------------- u32 in two 16-bit limbs
Limb == 2^16

W(n) == <<n \div Limb, n % Limb>>
Hi(a) == a[1]
Lo(a) == a[2]
Norm(h, l) == <<h + (l \div Limb), l % Limb>>
ToInt(a) == Hi(a) * Limb + Lo(a)

WAdd(a, b) == Norm(Hi(a) + Hi(b), Lo(a) + Lo(b))
WMul(a, k) == Norm(Hi(a) * k, Lo(a) * k)
WDiv(a, d) == <<Hi(a) \div d, ((Hi(a) % d) * Limb + Lo(a)) \div d>>
WMod(a, d) == W(((Hi(a) % d) * Limb + Lo(a)) % d)
WLe(a, b) == Hi(a) < Hi(b) \/ (Hi(a) = Hi(b) /\ Lo(a) <= Lo(b))
WLt(a, b) == Hi(a) < Hi(b) \/ (Hi(a) = Hi(b) /\ Lo(a) < Lo(b))
\* a - b for a >= b
WSub(a, b) ==
    IF Lo(a) >= Lo(b) THEN <<Hi(a) - Hi(b), Lo(a) - Lo(b)>>
    ELSE <<Hi(a) - Hi(b) - 1, Lo(a) + Limb - Lo(b)>>

U32Max == <<Limb - 1, Limb - 1>>
Fits32(a) == Hi(a) < Limb
Wrap32(a) == <<Hi(a) % Limb, Lo(a)>>
\* u32 subtraction, wrapping on underflow
WrapSub32(a, b) == IF WLe(b, a) THEN WSub(a, b) ELSE WSub(WAdd(a, <<Limb, 0>>), b)

\* --------------------------------------------------------------- constants
CYCLES_PER_SECOND == 16000000
CYCLES_PER_MICROS == CYCLES_PER_SECOND \div 1000000
ATOM_DELAY_SUCCESSFUL_ITERATION_CYCLES == 16
ATOM_DELAY_FINAL_ITERATION_CYCLES == 7
CYCLES_PER_ATOM == 25
MILLIS_TO_MICROS == 1000
EXAMPLE_MILLIS == 200

NAP_STANDALONE_CYCLES == 21
CALL_INSTRUCTION_CYCLES == 4
CYCLES_PER_NAP == NAP_STANDALONE_CYCLES + CALL_INSTRUCTION_CYCLES

\* cycle costs annotated on the instructions of delay_atom_iterations
CHECK_PREFIX_CYCLES == 5
BREQ_NOT_TAKEN_CYCLES == 1
BREQ_TAKEN_CYCLES == 2
CALL_CYCLES == 4
DECREMENT_CYCLES == 4
RJMP_CYCLES == 2
\* delay_21_cycles: 17 nops and a 4-cycle ret
NOP_COUNT == 17
RET_CYCLES == 4
ATOM_BODY_CYCLES == NOP_COUNT + RET_CYCLES

\* ------------------------------------------------- build-time const fns
\* `micros * CYCLES_PER_MICROS` on u32: the wrapped product, and whether the
\* exact product leaves u32.
cycle_count_micros(micros) == Wrap32(WMul(micros, CYCLES_PER_MICROS))
cycle_count_micros_overflows(micros) == ~Fits32(WMul(micros, CYCLES_PER_MICROS))

\* variant: the per-iteration loop cost taken to be the atom's cost
extraneous_cycles_at_atom_cost(iteration_count) ==
    Wrap32(WAdd(WMul(iteration_count, CYCLES_PER_ATOM),
                W(ATOM_DELAY_FINAL_ITERATION_CYCLES)))
extraneous_cycles_from_looping(iteration_count) ==
    Wrap32(WAdd(WMul(iteration_count, ATOM_DELAY_SUCCESSFUL_ITERATION_CYCLES),
                W(ATOM_DELAY_FINAL_ITERATION_CYCLES)))
extraneous_cycles_overflows(iteration_count) ==
    ~Fits32(WAdd(WMul(iteration_count, ATOM_DELAY_SUCCESSFUL_ITERATION_CYCLES),
                 W(ATOM_DELAY_FINAL_ITERATION_CYCLES)))

extraneous_iterations_from_looping(iteration_count) ==
    WDiv(extraneous_cycles_from_looping(iteration_count), CYCLES_PER_ATOM)

\* variant: the loop overhead is not subtracted
actual_iterations_uncompensated(iteration_count) == iteration_count
actual_iterations(iteration_count) ==
    WrapSub32(iteration_count, extraneous_iterations_from_looping(iteration_count))
actual_iterations_overflows(iteration_count) ==
    \/ extraneous_cycles_overflows(iteration_count)
    \/ WLt(iteration_count, extraneous_iterations_from_looping(iteration_count))

\* variants: rounding up as nap::naps_required does; `%` written for `/`
iterations_required_rounding_up(cycles) ==
    WDiv(Wrap32(WSub(WAdd(cycles, W(CYCLES_PER_ATOM)), W(1))), CYCLES_PER_ATOM)
iterations_required_remainder(cycles) == WMod(cycles, CYCLES_PER_ATOM)
\* atoms::twenty_five_cycles::iterations_required: truncating division
iterations_required(cycles) == WDiv(cycles, CYCLES_PER_ATOM)

\* util::division_ceil and nap::naps_required (u32 sum wraps when unchecked)
division_ceil(a, b) == WDiv(Wrap32(WSub(WAdd(a, W(b)), W(1))), b)
naps_required(cycles) == division_ceil(cycles, CYCLES_PER_NAP)

\* `$milliseconds * 1000` written in the body of the const item CYCLE_COUNT
millis_to_micros(milliseconds) == WMul(milliseconds, MILLIS_TO_MICROS)

\* The argument of cycle_count_micros / delay_cycles! for a request, exact.
MicrosOf(u, d) == IF u = "ms" THEN millis_to_micros(d) ELSE d
\* Overflow inside the const item's own initializer expression: always a
\* build error.
ConstItemOverflows(u, d) == u = "ms" /\ ~Fits32(millis_to_micros(d))
\* CYCLE_COUNT as the build computes it (wrapping inside const fns).
CycleCountOf(u, d) == IF u = "cycles" THEN d ELSE cycle_count_micros(MicrosOf(u, d))
\* Overflow inside a const fn of the crate: a build error when the crate is
\* compiled with overflow checks, a wrapped value when it is not.
ConstFnOverflows(u, d) ==
    \/ u # "cycles" /\ cycle_count_micros_overflows(MicrosOf(u, d))
    \/ actual_iterations_overflows(iterations_required(CycleCountOf(u, d)))

\* ----------------------------------------------------- AVR instructions
\* cpu = [r0, r20, r21, r22, r23 : byte, Z, C : flag]
Bit(b) == IF b THEN 1 ELSE 0
RECURSIVE XorBits(_, _, _)
XorBits(a, b, n) ==
    IF n = 0 THEN 0
    ELSE ((a + b) % 2) + 2 * XorBits(a \div 2, b \div 2, n - 1)

\* cpi Rd, K : Rd - K, sets Z and C
CPI(m, rd, K) == [m EXCEPT !.Z = ((m[rd] - K) % 256 = 0), !.C = (K > m[rd])]
\* eor Rd, Rr : Rd := Rd xor Rr, sets Z from the result, leaves C
EOR(m, rd, rr) ==
    LET res == XorBits(m[rd], m[rr], 8)
    IN [m EXCEPT ![rd] = res, !.Z = (res = 0)]
\* cpc Rd, Rr : Rd - Rr - C; Z is kept only when the result is zero
CPC(m, rd, rr) ==
    [m EXCEPT !.Z = (((m[rd] - m[rr] - Bit(m.C)) % 256 = 0) /\ m.Z),
              !.C = (m[rr] + Bit(m.C) > m[rd])]
\* subi Rd, K : Rd := Rd - K
SUBI(m, rd, K) ==
    [m EXCEPT ![rd] = (m[rd] - K) % 256,
              !.Z = ((m[rd] - K) % 256 = 0),
              !.C = (K > m[rd])]
\* sbci Rd, K : Rd := Rd - K - C
SBCI(m, rd, K) ==
    [m EXCEPT ![rd] = (m[rd] - K - Bit(m.C)) % 256,
              !.Z = (((m[rd] - K - Bit(m.C)) % 256 = 0) /\ m.Z),
              !.C = (K + Bit(m.C) > m[rd])]
\* variant: brne written for breq
BRNE(m) == ~m.Z
\* breq : branch when Z is set
BREQ(m) == m.Z

\* lines 88-92: cpi r20,0 ; eor r0,r0 ; cpc r21,r0 ; cpc r22,r0 ; cpc r23,r0
CheckBlock(m) ==
    CPC(CPC(CPC(EOR(CPI(m, "r20", 0), "r0", "r0"), "r21", "r0"), "r22", "r0"), "r23", "r0")
\* lines 104-107: subi r20,1 ; sbci r21,0 ; sbci r22,0 ; sbci r23,0
DecrementBlock(m) ==
    SBCI(SBCI(SBCI(SUBI(m, "r20", 1), "r21", 0), "r22", 0), "r23", 0)

\* iteration_count as the source reads it: r23:r22:r21:r20
Counter(m) == <<m.r23 * 256 + m.r22, m.r21 * 256 + m.r20>>
LoadArgument(m, n) ==
    [m EXCEPT !.r20 = Lo(n) % 256, !.r21 = Lo(n) \div 256,
              !.r22 = Hi(n) % 256, !.r23 = Hi(n) \div 256]

\* ------------------------------------------------------------------ state
VARIABLES
    pc,           \* "source", "rejected", "built", then the position inside
                  \* delay_atom_iterations: "check", "call", "atom", "dec",
                  \* "rjmp", "done" (label .done), "returned"
    unit,         \* which macro the call site uses: "cycles", "us", "ms"
    duration,     \* the macro's argument
    cycles,       \* const CYCLE_COUNT
    conservative, \* const ITERATIONS_CONSERVATIVE
    iterations,   \* const ITERATIONS
    cpu,          \* registers and flags used by delay_atom_iterations
    entered,      \* delay_atom_iterations has been called
    atom_calls,   \* completed executions of delay_21_cycles
    elapsed       \* cycles spent since entry, by the source's annotations

vars == <<pc, unit, duration, cycles, conservative, iterations, cpu, entered,
          atom_calls, elapsed>>

\* ----------------------------------------------------------------- inputs
\* 2^32 / CYCLES_PER_MICROS: the first microsecond count whose cycle count
\* leaves u32; and the milliseconds where each product of delay_ms! leaves it
UsOverflowAt == (Limb \div CYCLES_PER_MICROS) * Limb
MsFnOverflowAt == UsOverflowAt \div MILLIS_TO_MICROS
MsItemOverflowAt == ((Limb \div 8) * Limb) \div (MILLIS_TO_MICROS \div 8)

CycleInputs ==
    {W(c) : c \in 0..MaxCycles}
    \cup {W(MidBase + k) : k \in 0..MidSpan}
    \cup {<<Limb - 1, Limb - 1 - k>> : k \in 0..TopSpan}
UsInputs ==
    {W(u) : u \in 0..MaxUs}
    \cup {W(UsOverflowAt - UsSpan + k) : k \in 0..(2 * UsSpan)}
MsInputs ==
    {W(ms) : ms \in 0..MaxMs}
    \cup {W(EXAMPLE_MILLIS)}
    \cup {W(MsFnOverflowAt - MsSpan + k) : k \in 0..(2 * MsSpan)}
    \cup {W(MsItemOverflowAt - MsSpan + k) : k \in 0..(2 * MsSpan)}
\* r0 is a scratch register: its value on entry is whatever the caller left
R0Values == {0, 1, 255}

IdleCpu == [r0 |-> 0, r20 |-> 0, r21 |-> 0, r22 |-> 0, r23 |-> 0,
            Z |-> FALSE, C |-> FALSE]

Init ==
    /\ pc = "source"
    /\ unit = "cycles"
    /\ duration = W(0)
    /\ cycles = W(0)
    /\ conservative = W(0)
    /\ iterations = W(0)
    /\ cpu = IdleCpu
    /\ entered = FALSE
    /\ atom_calls = 0
    /\ elapsed = 0

\* ---------------------------------------------------------------- actions
\* Expansion of delay_cycles! and const evaluation of its three const items.
\* overflow_checks: whether the crate's const fns are compiled with
\* overflow checks.
Expand(u, d, overflow_checks) ==
    /\ unit' = u
    /\ duration' = d
    /\ UNCHANGED <<cpu, entered, atom_calls, elapsed>>
    /\ IF ConstItemOverflows(u, d) \/ (overflow_checks /\ ConstFnOverflows(u, d))
       THEN /\ pc' = "rejected"
            /\ UNCHANGED <<cycles, conservative, iterations>>
       ELSE /\ pc' = "built"
            /\ cycles' = CycleCountOf(u, d)
            /\ conservative' = iterations_required(CycleCountOf(u, d))
            /\ iterations' = actual_iterations(iterations_required(CycleCountOf(u, d)))

delay_cycles ==
    /\ pc = "source"
    /\ \E c \in CycleInputs, k \in BOOLEAN : Expand("cycles", c, k)
delay_us ==
    /\ pc = "source"
    /\ \E us \in UsInputs, k \in BOOLEAN : Expand("us", us, k)
delay_ms ==
    /\ pc = "source"
    /\ \E ms \in MsInputs, k \in BOOLEAN : Expand("ms", ms, k)

\* `$crate::delay_atom_iterations(ITERATIONS)`: the call, with the argument
\* in r20..r23 as the function body reads it.
Enter ==
    /\ pc = "built"
    /\ WLe(iterations, W(MaxIterations))
    /\ \E r0 \in R0Values, z \in BOOLEAN, c \in BOOLEAN :
         cpu' = LoadArgument([IdleCpu EXCEPT !.r0 = r0, !.Z = z, !.C = c], iterations)
    /\ pc' = "check"
    /\ entered' = TRUE
    /\ UNCHANGED <<unit, duration, cycles, conservative, iterations, atom_calls, elapsed>>

\* .iteration: the zero test and `breq .done`
Check ==
    /\ pc = "check"
    /\ cpu' = CheckBlock(cpu)
    /\ IF BREQ(CheckBlock(cpu))
       THEN /\ pc' = "done"
            /\ elapsed' = elapsed + CHECK_PREFIX_CYCLES + BREQ_TAKEN_CYCLES
       ELSE /\ pc' = "call"
            /\ elapsed' = elapsed + CHECK_PREFIX_CYCLES + BREQ_NOT_TAKEN_CYCLES
    /\ UNCHANGED <<unit, duration, cycles, conservative, iterations, entered, atom_calls>>

\* `call delay_21_cycles`
Call ==
    /\ pc = "call"
    /\ pc' = "atom"
    /\ elapsed' = elapsed + CALL_CYCLES
    /\ UNCHANGED <<unit, duration, cycles, conservative, iterations, cpu, entered, atom_calls>>

\* the body of the atom: 17 nops and ret
delay_21_cycles ==
    /\ pc = "atom"
    /\ pc' = "dec"
    /\ elapsed' = elapsed + ATOM_BODY_CYCLES
    /\ atom_calls' = atom_calls + 1
    /\ UNCHANGED <<unit, duration, cycles, conservative, iterations, cpu, entered>>

\* subi/sbci: iteration_count -= 1
Decrement ==
    /\ pc = "dec"
    /\ cpu' = DecrementBlock(cpu)
    /\ pc' = "rjmp"
    /\ elapsed' = elapsed + DECREMENT_CYCLES
    /\ UNCHANGED <<unit, duration, cycles, conservative, iterations, entered, atom_calls>>

\* `rjmp .iteration`
Rjmp ==
    /\ pc = "rjmp"
    /\ pc' = "check"
    /\ elapsed' = elapsed + RJMP_CYCLES
    /\ UNCHANGED <<unit, duration, cycles, conservative, iterations, cpu, entered, atom_calls>>

\* .done: ret
Ret ==
    /\ pc = "done"
    /\ pc' = "returned"
    /\ UNCHANGED <<unit, duration, cycles, conservative, iterations, cpu, entered,
                   atom_calls, elapsed>>

Next ==
    \/ delay_cycles
    \/ delay_us
    \/ delay_ms
    \/ Enter
    \/ Check
    \/ Call
    \/ delay_21_cycles
    \/ Decrement
    \/ Rjmp
    \/ Ret

Spec == Init /\ [][Next]_vars

TypeOK ==
    /\ pc \in {"source", "rejected", "built", "check", "call", "atom", "dec",
               "rjmp", "done", "returned"}
    /\ unit \in {"cycles", "us", "ms"}
    /\ Fits32(cycles) /\ Fits32(conservative) /\ Fits32(iterations)
    /\ \A r \in {"r0", "r20", "r21", "r22", "r23"} : cpu[r] \in 0..255
    /\ atom_calls \in Nat /\ elapsed \in Nat

\* ------------------------------------------------------------- properties
Built == pc \notin {"source", "rejected"}
InLoopBody == pc \in {"call", "atom", "dec", "rjmp"}
AtDone == pc \in {"done", "returned"}

\* the iteration count delay_cycles! computes for a cycle count
IterationCount(c) == actual_iterations(iterations_required(c))
\* n * 25 + (n * 16 + 7), exact
RealizedDelay(n) == WAdd(WMul(n, 25), WAdd(WMul(n, 16), W(7)))
\* ceil(c / d), exact
CeilDiv(c, d) == IF WMod(c, d) = W(0) THEN WDiv(c, d) ELSE WAdd(WDiv(c, d), W(1))
\* us * 16, or ms * 1000 * 16, exact
ExactCycles(u, d) == IF u = "ms" THEN WMul(WMul(d, 1000), 16) ELSE WMul(d, 16)

\* C1: whenever the iteration count N passed to delay_atom_iterations is
\* positive, the realized delay N * 25 + (N * 16 + 7) is at least the
\* requested cycle count.
C1_LowerBound ==
    (Built /\ iterations # W(0)) => WLe(cycles, RealizedDelay(iterations))

\* C2 (as stated): a zero-duration request resolves to 0 iterations and
\* neither enters delay_atom_iterations nor calls the atom.
C2_ZeroNeverEntersLoop ==
    (pc # "source" /\ duration = W(0)) =>
        /\ pc # "rejected"
        /\ iterations = W(0)
        /\ ~entered
        /\ atom_calls = 0

\* C2 (amended): a zero-duration request resolves to 0 iterations and never
\* calls the atom; delay_atom_iterations is entered and leaves through its
\* first zero check (7 cycles), never reaching the loop body.
C2_ZeroNeverCallsAtom ==
    (pc # "source" /\ duration = W(0)) =>
        /\ pc # "rejected"
        /\ iterations = W(0)
        /\ atom_calls = 0
        /\ ~InLoopBody
        /\ (AtDone => entered /\ elapsed = 7)

C2_Witness == pc = "done" /\ duration = W(0) /\ entered /\ atom_calls = 0

\* C3: a microsecond or millisecond request yields exactly us * 16 or
\* ms * 1000 * 16 cycles, and whenever a product of the chain exceeds
\* 2^32 - 1 the request is rejected rather than built with a wrapped count.
C3_ConversionNeverWraps ==
    (pc # "source" /\ unit # "cycles") =>
        IF Fits32(ExactCycles(unit, duration))
        THEN pc # "rejected" /\ cycles = ExactCycles(unit, duration)
        ELSE pc = "rejected"

\* C4: iterations_required(C) is ceil(C / 25), so N0 atoms cover the
\* request (N0 * 25 >= C), and naps_required(C) returns the same value.
C4_NaiveCountIsCeiling ==
    Built =>
        /\ conservative = CeilDiv(cycles, 25)
        /\ WLe(cycles, WMul(conservative, 25))
        /\ naps_required(cycles) = conservative

\* C5: the solver is monotone: every cycle count C1 no larger than the
\* requested one gets an iteration count no larger than the one computed.
C5_Monotone ==
    pc = "built" =>
        \A c1 \in CycleInputs :
            WLe(c1, cycles) => WLe(IterationCount(c1), iterations)

C5_Witness ==
    /\ pc = "built"
    /\ \E c1 \in CycleInputs :
         WLt(c1, cycles) /\ WLt(W(0), IterationCount(c1))
                         /\ WLt(IterationCount(c1), iterations)

\* C6: for every N0 <= floor((2^32 - 1) / 25), actual_iterations in u32
\* arithmetic equals max(0, N0 - floor((N0 * 16 + 7) / 25)) over the
\* integers: N0 * 16 + 7 fits u32 and the subtraction does not underflow;
\* N0 = 40 gives 15 and N0 = 1 gives 1.
C6_MatchesReference ==
    (Built /\ WLe(conservative, WDiv(U32Max, 25))) =>
        LET overhead == WAdd(WMul(conservative, 16), W(7))
            atoms == WDiv(overhead, 25)
        IN /\ Fits32(overhead)
           /\ WLe(atoms, conservative)
           /\ iterations = WSub(conservative, atoms)
           /\ (conservative = W(40) => iterations = W(15))
           /\ (conservative = W(1) => iterations = W(1))

C6_Witness ==
    pc = "built" /\ cycles = U32Max /\ conservative = WDiv(U32Max, 25)

\* C7: delay_atom_iterations(n) reaches .done having invoked the atom
\* exactly n times; the counter falls by one per atom invocation, stays
\* >= 0, and no atom is invoked once it is 0.
C7_TripCount ==
    /\ AtDone => (atom_calls = ToInt(iterations) /\ Counter(cpu) = W(0))
    /\ pc \in {"check", "call", "atom"} =>
           ToInt(Counter(cpu)) + atom_calls = ToInt(iterations)
    /\ pc \in {"call", "atom", "dec"} => Counter(cpu) # W(0)

C9_BoundedOvershoot ==
    Built => WLt(RealizedDelay(iterations), WAdd(cycles, W(25 + 16)))

C9_Witness ==
    pc = "built" /\ cycles = W(25) /\ iterations = W(1)

\* C10: the cycles elapsed up to the terminating branch, counted with the
\* source's per-instruction annotations, equal
\* n * CYCLES_PER_ATOM + (n * ATOM_DELAY_SUCCESSFUL_ITERATION_CYCLES
\* + ATOM_DELAY_FINAL_ITERATION_CYCLES).
C10_CycleAccounting ==
    pc = "done" =>
        elapsed = ToInt(iterations) * CYCLES_PER_ATOM
                  + ToInt(iterations) * ATOM_DELAY_SUCCESSFUL_ITERATION_CYCLES
                  + ATOM_DELAY_FINAL_ITERATION_CYCLES

====
